---- MODULE Spec2Model ----
(***************************************************************************)
(* A model of sqlitezstd: the read-only SQLite VFS over seekable-zstd     *)
(* files (vfs.go), the file handle it returns, and the seekable reader    *)
(* the handle delegates to.                                               *)
(*                                                                         *)
(* Strings are sequences of one-character strings, so HasPrefix and       *)
(* HasSuffix are computed, not assumed.  A physical file is a sequence of *)
(* integer cells: the compressed frames followed by the seek table.       *)
(***************************************************************************)
EXTENDS Integers, Sequences, FiniteSets, TLC

\* files:    the ZstdFile behind each handle slot the engine holds
\* srcs:     the reader objects (an *os.File or HTTP reader) the files use
\* live:     how many descriptors and zstd decoders are open, not yet closed
\* ops:      the ReadAt call each engine thread has in flight
\* last:     the most recently returned call, its arguments and results
\* cursors:  the readerat ReadSeeker values, each with its Size and offset
\* calls:    the Read or Seek each goroutine has in flight on a cursor, or
\*           the one it last returned from
\* registry: how many times RegisterVFS has been called with the name "zstd"
VARIABLES files, srcs, live, ops, last, cursors, calls, registry

vars == <<files, srcs, live, ops, last, cursors, calls, registry>>
cvars == <<cursors, calls, registry>>

(***************************** bounds **************************************)
\* handle slots the engine may hold open at once
MaxHandles == 2
\* engine threads issuing calls
MaxThreads == 2
\* cap on the descriptors, and on the decoders, open at once
MaxLive == 2
\* the largest Size a ReadSeeker is constructed with
MaxSize == 4
\* the longest buffer handed to ReadSeeker.Read
MaxBuf == 2
\* how many times the program calls Init
MaxInits == 3

Handles == 1..MaxHandles
Threads == 1..MaxThreads
SrcIds == 1..MaxHandles

(***************************** strings *************************************)
\* strings.HasPrefix
HasPrefix(s, p) ==
    /\ Len(s) >= Len(p)
    /\ SubSeq(s, 1, Len(p)) = p

\* strings.HasSuffix
HasSuffix(s, x) ==
    /\ Len(s) >= Len(x)
    /\ SubSeq(s, Len(s) - Len(x) + 1, Len(s)) = x

sWal == <<"-", "w", "a", "l">>
sJournal == <<"-", "j", "o", "u", "r", "n", "a", "l">>
sShm == <<"-", "s", "h", "m">>
sHttp == <<"h", "t", "t", "p", ":", "/", "/">>
sHttps == <<"h", "t", "t", "p", "s", ":", "/", "/">>

\* the names the engine passes in
nDb == <<"a">>
nDbWal == nDb \o sWal
nDbJournal == nDb \o sJournal
nDbShm == nDb \o sShm
nMissing == <<"m">>
nBareWal == sWal
nNoDash == <<"w", "a", "l">>
nUrl == sHttp \o <<"a">>
nUrlS == sHttps \o <<"a">>
nUrlUpper == <<"H", "T", "T", "P", ":", "/", "/", "a">>
nUrlMissing == sHttp \o <<"m">>
nUrlBad == sHttp \o <<"%">>

Names ==
    { nDb, nDbWal, nDbJournal, nDbShm, nMissing, nBareWal, nNoDash,
      nUrl, nUrlS, nUrlUpper, nUrlMissing, nUrlBad }

\* a name is a side-file name when it ends in one of the three suffixes
IsSideFile(name) ==
    \/ HasSuffix(name, sWal)
    \/ HasSuffix(name, sJournal)
    \/ HasSuffix(name, sShm)

(***************************** the world ***********************************)
\* Cells of a physical file are integers.  A data frame is a header (magic,
\* decompressed length) followed by one encoded cell per logical byte.
FrameMagic == 90
SkipMagic == 91
FooterMagic == 92

Min(a, b) == IF a < b THEN a ELSE b

RECURSIVE Flatten(_)
Flatten(ss) == IF ss = <<>> THEN <<>> ELSE Head(ss) \o Flatten(Tail(ss))

\* the encoder of one logical byte, and its inverse on valid cells
Enc(b) == 2 * b + 20
IsEnc(c) == c >= 20 /\ c < FrameMagic /\ c % 2 = 0
Dec(c) == (c - 20) \div 2

\* what the producer tool writes for one frame
Compress(bs) == <<FrameMagic, Len(bs)>> \o [i \in 1..Len(bs) |-> Enc(bs[i])]

\* zstd DecodeAll of one frame
Decompress(cs) ==
    IF /\ Len(cs) >= 2
       /\ cs[1] = FrameMagic
       /\ cs[2] = Len(cs) - 2
       /\ \A i \in 3..Len(cs) : IsEnc(cs[i])
    THEN [ok |-> TRUE, data |-> [i \in 1..(Len(cs) - 2) |-> Dec(cs[i + 2])]]
    ELSE [ok |-> FALSE, data |-> <<>>]

\* the seek-table skippable frame: magic, (Compressed_Size,
\* Decompressed_Size) per frame, then the footer (count, descriptor, magic)
SeekTable(frames) ==
    <<SkipMagic>>
        \o Flatten([i \in 1..Len(frames) |->
                        <<Len(Compress(frames[i])), Len(frames[i])>>])
        \o <<Len(frames), 0, FooterMagic>>

\* a seekable-zstd stream as the producer tool writes it
Artifact(frames) ==
    Flatten([i \in 1..Len(frames) |-> Compress(frames[i])]) \o SeekTable(frames)

\* the databases of the tests, as logical bytes cut into frames
DbFrames == << <<1, 2>>, <<3>>, <<4>> >>
WalFrames == << <<6>>, <<7, 8>> >>

\* the two artifacts as stored, and their canonical decompressions
DbArtifact == Artifact(DbFrames)
WalArtifact == Artifact(WalFrames)
DbLogical == Flatten(DbFrames)
WalLogical == Flatten(WalFrames)

\* the local filesystem: which paths exist and what they hold
LocalExists == { nDb, nDbWal, nDbJournal }
LocalContent(name) ==
    CASE name = nDb -> DbArtifact
      [] name = nDbWal -> WalArtifact
      [] name = nDbJournal -> <<1, 2, 3>>
      [] OTHER -> <<>>

\* the static HTTP server of the tests: which URLs it serves
RemoteExists == { nUrl, nUrlS }
RemoteContent(name) ==
    CASE name \in RemoteExists -> DbArtifact
      [] OTHER -> <<>>

\* url.Parse rejects an invalid escape
UrlParses(name) == name # nUrlBad

\* the canonical decompression of the stream stored under a name
Logical(name) ==
    CASE name \in { nDb, nUrl, nUrlS } -> DbLogical
      [] name = nDbWal -> WalLogical
      [] OTHER -> <<>>

(***************************** the source **********************************)
\* the bytes behind an opened reader (an *os.File or a *ranger.Reader)
Content(kind, name) ==
    IF kind = "http" THEN RemoteContent(name) ELSE LocalContent(name)

\* io.Reader.Read of up to n cells at the reader's own offset
SrcRead(kind, name, off, n) ==
    LET c == Content(kind, name)
    IN  IF off >= Len(c) THEN <<>> ELSE SubSeq(c, off + 1, Min(off + n, Len(c)))

(************************* the seekable reader *****************************)
RECURSIVE SumCol(_, _, _, _)
\* sum of column col (1 compressed, 2 decompressed) of the first k entries
SumCol(c, base, col, k) ==
    IF k = 0 THEN 0 ELSE c[base + 2 * (k - 1) + col] + SumCol(c, base, col, k - 1)

\* seekable.NewReader: locate the footer, read the table, build the frame
\* index by prefix sums
ParseIndex(c) ==
    LET size == Len(c)
        n == IF size >= 3 THEN c[size - 2] ELSE 0
        tableLen == 1 + 2 * n + 3
        base == size - tableLen + 1
    IN  IF \/ size < 3
           \/ c[size] # FooterMagic
           \/ n < 0
           \/ size < tableLen
           \/ c[base] # SkipMagic
           \/ SumCol(c, base, 1, n) # size - tableLen
        THEN [ok |-> FALSE, index |-> <<>>, roff |-> size]
        ELSE [ok |-> TRUE, roff |-> size - 3,
              index |-> [i \in 1..n |->
                           [coff |-> SumCol(c, base, 1, i - 1),
                            clen |-> c[base + 2 * (i - 1) + 1],
                            loff |-> SumCol(c, base, 2, i - 1),
                            llen |-> c[base + 2 * (i - 1) + 2]]]]

\* total logical size: the sum of the per-frame decompressed sizes
LogicalSize(index) ==
    IF index = <<>> THEN 0
    ELSE index[Len(index)].loff + index[Len(index)].llen

\* the frame whose logical range contains off; the smaller index on a tie
FindFrame(index, off) ==
    LET hit == { i \in 1..Len(index) :
                    index[i].loff <= off /\ off <= index[i].loff + index[i].llen }
    IN  IF hit = {} THEN 0 ELSE CHOOSE i \in hit : \A j \in hit : i <= j

\* seekable.NewReader over each reader Open can build
Seekable ==
    [kind \in {"file", "http"} |->
        [name \in Names |-> ParseIndex(Content(kind, name))]]

(***************************** records *************************************)
NoFile == [kind |-> "none", name |-> <<>>, src |-> 0, closer |-> "none",
           decoder |-> FALSE, index |-> <<>>]

FreeSrc == [state |-> "free", kind |-> "none", name |-> <<>>, off |-> 0]

Idle == [pc |-> "idle", h |-> 0, off |-> 0, len |-> 0, fr |-> 0,
         out |-> <<>>, err |-> "ok"]

NoCall == [op |-> "none", name |-> <<>>, flags |-> {}, kind |-> "none",
           off |-> 0, len |-> 0, err |-> "ok", hasFile |-> FALSE, flagsOut |-> {},
           bool |-> FALSE, data |-> <<>>, n |-> 0]

OpenFlags == { {"ReadOnly"}, {"ReadWrite", "Create"} }
AccessFlags == { "Exists", "ReadWrite" }

(************************** the read path **********************************)
\* a finished ReadAt: no partial bytes on an error, a short count is EOF
Finish(o, out, err) ==
    [o EXCEPT !.pc = "done",
              !.out = IF err \in {"ok", "EOF"} THEN out ELSE <<>>,
              !.err = err]

\* ReadAt entered: pick the first frame, or return at once
ReadBegin(f, h, off, len) ==
    LET o == [Idle EXCEPT !.h = h, !.off = off, !.len = len]
        fr == FindFrame(f.index, off)
    IN  IF len = 0 THEN Finish(o, <<>>, "ok")
        ELSE IF fr = 0 THEN Finish(o, <<>>, "EOF")
        ELSE [o EXCEPT !.pc = "seek", !.fr = fr]

\* the reader is positioned at the frame's compressed offset
StepSeek(f, s, o) ==
    IF s.state # "open"
    THEN <<s, Finish(o, <<>>, "IoErr")>>
    ELSE <<[s EXCEPT !.off = f.index[o.fr].coff], [o EXCEPT !.pc = "read"]>>

\* the frame is read at the reader's offset, decoded, and its part of the
\* requested range copied; the next frame follows while the buffer has room
StepRead(f, s, o) ==
    LET e == f.index[o.fr]
        cells == SrcRead(s.kind, s.name, s.off, e.clen)
        s2 == [s EXCEPT !.off = s.off + Len(cells)]
        d == Decompress(cells)
        start == o.off + Len(o.out) - e.loff
        take == Min(o.len - Len(o.out), e.llen - start)
        out == o.out \o SubSeq(d.data, start + 1, start + take)
    IN  IF s.state # "open" THEN <<s, Finish(o, <<>>, "IoErr")>>
        ELSE IF Len(cells) < e.clen THEN <<s2, Finish(o, <<>>, "IoShort")>>
        ELSE IF ~d.ok \/ ~f.decoder \/ Len(d.data) # e.llen
             THEN <<s2, Finish(o, <<>>, "Corrupt")>>
        ELSE IF Len(out) = o.len THEN <<s2, Finish(o, out, "ok")>>
        ELSE IF o.fr = Len(f.index) THEN <<s2, Finish(o, out, "EOF")>>
        ELSE <<s2, [o EXCEPT !.pc = "seek", !.fr = o.fr + 1, !.out = out]>>

RECURSIVE RunRead(_, _, _)
\* one ReadAt run from where it stands to its return, nothing interleaved
RunRead(f, s, o) ==
    IF o.pc = "done" THEN <<s, o>>
    ELSE LET r == IF o.pc = "seek" THEN StepSeek(f, s, o) ELSE StepRead(f, s, o)
         IN  RunRead(f, r[1], r[2])

(***************************** ZstdVFS *************************************)
\* Access with the journal suffix forgotten
AccessResult_WalOnly(name, flags) ==
    IF HasSuffix(name, sWal)
    THEN [bool |-> FALSE, err |-> "ok"]
    ELSE [bool |-> TRUE, err |-> "ok"]

\* ZstdVFS.Access: the boolean and the error it returns
AccessResult(name, flags) ==
    IF HasSuffix(name, sWal) \/ HasSuffix(name, sJournal)
    THEN [bool |-> FALSE, err |-> "ok"]
    ELSE [bool |-> TRUE, err |-> "ok"]

\* Delete reporting success
DeleteResult_Nil(name, dirSync) == "ok"

\* ZstdVFS.Delete: the error it returns
DeleteResult(name, dirSync) == "ReadOnly"

\* ZstdVFS.FullPathname
FullPathnameResult(name) == name

\* ZstdVFS.Open, choice of the reader: the HTTP ranger for the two URL
\* schemes, os.Open for every other name
IsHttpName_HttpOnly(name) == HasPrefix(name, sHttp)

IsHttpName(name) == HasPrefix(name, sHttp) \/ HasPrefix(name, sHttps)

\* ZstdVFS.Open, construction of the reader and its closer; branch is the
\* constructor it went to
OpenSource(name) ==
    IF IsHttpName(name)
    THEN IF ~UrlParses(name) \/ name \notin RemoteExists
         THEN [err |-> "CantOpen", branch |-> "http", kind |-> "none",
               closer |-> "none"]
         ELSE [err |-> "ok", branch |-> "http", kind |-> "http",
               closer |-> "nop"]
    ELSE IF name \notin LocalExists
         THEN [err |-> "CantOpen", branch |-> "file", kind |-> "none",
               closer |-> "none"]
         ELSE [err |-> "ok", branch |-> "file", kind |-> "file",
               closer |-> "file"]

\* the requested flags handed back as they came
OpenFlagsOut_AsRequested(flags) == flags

\* the open-flags ZstdVFS.Open returns with a file
OpenFlagsOut(flags) == flags \cup {"ReadOnly"}

\* a failure surfacing the underlying I/O error instead of CantOpen
OpenFailure_IoErr(fd, dec) ==
    [err |-> "IoErr", hasFile |-> FALSE, flagsOut |-> {},
     kind |-> "none", closer |-> "none", fd |-> fd, dec |-> dec,
     index |-> <<>>, roff |-> 0]

\* what ZstdVFS.Open returns when it fails: no file, zero flags, CantOpen;
\* fd and dec say whether a descriptor and a decoder had been acquired
OpenFailure(fd, dec) ==
    [err |-> "CantOpen", hasFile |-> FALSE, flagsOut |-> {},
     kind |-> "none", closer |-> "none", fd |-> fd, dec |-> dec,
     index |-> <<>>, roff |-> 0]

\* a ZstdFile whose decoder Open has already closed (a deferred Close)
NewZstdFile_ClosedDecoder(kind, name, src, closer, index) ==
    [kind |-> kind, name |-> name, src |-> src, closer |-> closer,
     decoder |-> FALSE, index |-> index]

\* the ZstdFile that ZstdVFS.Open returns: its decoder, closer and seekable
\* reader (here the reader object the seekable reader reads, and its index)
NewZstdFile(kind, name, src, closer, index) ==
    [kind |-> kind, name |-> name, src |-> src, closer |-> closer,
     decoder |-> TRUE, index |-> index]

\* ZstdVFS.Open: reader, decoder, seekable reader, then the ZstdFile.
\* decOk is whether zstd.NewReader succeeds.
OpenResult(name, flags, decOk) ==
    LET src == OpenSource(name)
        parsed == Seekable[src.kind][name]
    IN  IF src.err # "ok" THEN OpenFailure(FALSE, FALSE)
        ELSE IF ~decOk THEN OpenFailure(src.kind = "file", FALSE)
        ELSE IF ~parsed.ok THEN OpenFailure(src.kind = "file", TRUE)
        ELSE [err |-> "ok", hasFile |-> TRUE, flagsOut |-> OpenFlagsOut(flags),
              kind |-> src.kind, closer |-> src.closer,
              fd |-> src.kind = "file", dec |-> TRUE,
              index |-> parsed.index, roff |-> parsed.roff]

FreeSrcIds == { i \in SrcIds : srcs[i].state = "free" }
FreeHandles == { h \in Handles : files[h] = NoFile }
Lowest(S) == CHOOSE i \in S : \A j \in S : i <= j

\* a VFS that keeps one reader per name and hands it to every Open
AllocSource_Shared(name) ==
    LET same == { i \in SrcIds : srcs[i].state = "open" /\ srcs[i].name = name }
    IN  IF same # {} THEN Lowest(same) ELSE Lowest(FreeSrcIds)

\* the reader object one Open call gets: a new one, its own
AllocSource(name) == Lowest(FreeSrcIds)

(************************** the readerat cursor ****************************)
\* the bytes of the source the cursors read from; a ReaderAt has no position
SrcBytes == <<11, 12, 13>>

\* one cursor for each goroutine
CursorIds == Threads
\* Size is a field the constructor of a ReadSeeker sets; it may be negative,
\* and smaller or larger than the source
Sizes == (0 - 1)..MaxSize
\* offsets are explored up to one past the largest Size
MaxOffset == MaxSize + 1
BufLens == 0..MaxBuf
Whences == { "SeekStart", "SeekCurrent", "SeekEnd", "other" }
Deltas == (0 - MaxOffset)..MaxOffset

NoCursor == [made |-> FALSE, Size |-> 0, offset |-> 0]

\* a call on a cursor: its arguments, the offset the cursor had when it
\* began (before), the clipped buffer length (plen), the offset handed to
\* ReadAt (at), the offset loaded for the addition (tmp), how many bytes the
\* source is able to deliver to this call (give), and its results
NoCursorCall ==
    [pc |-> "idle", op |-> "none", c |-> 0, len |-> 0, give |-> 0,
     whence |-> "none", delta |-> 0, before |-> 0, plen |-> 0, at |-> 0,
     tmp |-> 0, asked |-> FALSE, n |-> 0, err |-> "ok", data |-> <<>>]

\* io.ReaderAt.ReadAt of the source: at most len bytes from off, and an
\* error whenever fewer than len are returned (EOF at the end of the source)
SourceReadAt(len, off, give) ==
    LET avail == IF off < Len(SrcBytes) THEN Len(SrcBytes) - off ELSE 0
        full  == Min(len, avail)
        n     == Min(full, give)
    IN  [n |-> n,
         data |-> SubSeq(SrcBytes, off + 1, off + n),
         err |-> IF n = len THEN "ok"
                 ELSE IF n = full THEN "EOF" ELSE "ErrUnexpected"]

\* one offset cell shared by every cursor
OffsetCell_Global(c) == 1

\* the offset a cursor uses is the field of its own struct
OffsetCell(c) == c

CursorReturn(cs, k, n, err) ==
    [cs |-> cs, k |-> [k EXCEPT !.pc = "done", !.n = n, !.err = err]]

\* the end test that lets a cursor standing exactly at Size go on
AtEnd_Strict(Size, offset) == Size < offset

\* if r.Size <= r.offset
AtEnd(Size, offset) == Size <= offset

\* the buffer used as it came
ClipLen_None(len, Size, offset) == len

\* length := r.Size - r.offset; if int64(len(p)) > length { p = p[:length] }
ClipLen(len, Size, offset) ==
    IF len > Size - offset THEN Size - offset ELSE len

\* Read up to the end test
ReadCheck(cs, k) ==
    LET r == cs[k.c]
        offset == cs[OffsetCell(k.c)].offset
    IN  IF r.Size < 0 THEN CursorReturn(cs, k, 0, "errInvalidSize")
        ELSE IF AtEnd(r.Size, offset) THEN CursorReturn(cs, k, 0, "EOF")
        ELSE [cs |-> cs, k |-> [k EXCEPT !.pc = "clip"]]

\* Read clipping its buffer; slicing to a negative length panics
ReadClip(cs, k) ==
    LET r == cs[k.c]
        offset == cs[OffsetCell(k.c)].offset
        plen == ClipLen(k.len, r.Size, offset)
    IN  IF plen < 0 THEN CursorReturn(cs, k, 0, "panic")
        ELSE IF plen = 0 THEN CursorReturn(cs, k, 0, "ok")
        ELSE [cs |-> cs, k |-> [k EXCEPT !.pc = "readat", !.plen = plen]]

\* actual, err := r.ReaderAt.ReadAt(p, r.offset)
ReadReadAt(cs, k) ==
    LET offset == cs[OffsetCell(k.c)].offset
        res == SourceReadAt(k.plen, offset, k.give)
    IN  [cs |-> cs,
         k |-> [k EXCEPT !.pc = "load", !.at = offset, !.asked = TRUE,
                         !.n = res.n, !.err = res.err, !.data = res.data]]

\* the load of r.offset += int64(actual)
ReadLoad(cs, k) ==
    [cs |-> cs,
     k |-> [k EXCEPT !.pc = "store", !.tmp = cs[OffsetCell(k.c)].offset]]

\* the offset moved only by a ReadAt that returned no error
Advance_OnSuccess(actual, err) == IF err = "ok" THEN actual ELSE 0

\* the cursor moves by the count ReadAt returned, whatever its error
Advance(actual, err) == actual

\* an addition on the offset as it is at the store
NewOffset_Atomic(offset, tmp, actual) == offset + actual

\* the value r.offset += int64(actual) stores: the loaded offset plus actual
NewOffset(offset, tmp, actual) == tmp + actual

\* the store of r.offset += int64(actual), the end-of-stream test, the return
ReadStore(cs, k) ==
    LET cell == OffsetCell(k.c)
        new == NewOffset(cs[cell].offset, k.tmp, Advance(k.n, k.err))
    IN  [cs |-> [cs EXCEPT ![cell].offset = new],
         k |-> [k EXCEPT !.pc = "done",
                         !.err = IF k.err = "ok" /\ new = cs[k.c].Size
                                 THEN "EOF" ELSE k.err]]

CursorStep(cs, k) ==
    CASE k.pc = "check"  -> ReadCheck(cs, k)
      [] k.pc = "clip"   -> ReadClip(cs, k)
      [] k.pc = "readat" -> ReadReadAt(cs, k)
      [] k.pc = "load"   -> ReadLoad(cs, k)
      [] k.pc = "store"  -> ReadStore(cs, k)

RECURSIVE CursorRun(_, _)
CursorRun(cs, k) ==
    IF k.pc = "done" THEN [cs |-> cs, k |-> k]
    ELSE CursorRun(CursorStep(cs, k).cs, CursorStep(cs, k).k)

\* a Read entered on cursor c with a buffer of len bytes
ReadEnter(cs, c, len, give) ==
    [NoCursorCall EXCEPT !.pc = "check", !.op = "Read", !.c = c, !.len = len,
                         !.give = give,
                         !.before = cs[OffsetCell(c)].offset]

\* a from-end seek taking the start as its base
SeekTarget_EndIsStart(whence, delta, offset, Size) ==
    CASE whence = "SeekStart" -> delta
      [] whence = "SeekCurrent" -> delta + offset
      [] whence = "SeekEnd" -> delta

\* the switch of Seek
SeekTarget(whence, delta, offset, Size) ==
    CASE whence = "SeekStart" -> delta
      [] whence = "SeekCurrent" -> delta + offset
      [] whence = "SeekEnd" -> delta + Size

SeekResult(cs, c, delta, whence) ==
    LET r == cs[c]
        cell == OffsetCell(c)
        k == [NoCursorCall EXCEPT !.op = "Seek", !.c = c, !.delta = delta,
                                  !.whence = whence,
                                  !.before = cs[cell].offset]
    IN  IF r.Size < 0 THEN CursorReturn(cs, k, 0, "errInvalidSize")
        ELSE IF whence \notin { "SeekStart", "SeekCurrent", "SeekEnd" }
        THEN CursorReturn(cs, k, 0, "errSeekToInvalidWhence")
        ELSE IF SeekTarget(whence, delta, cs[cell].offset, r.Size) < 0
        THEN CursorReturn(cs, k, 0, "errSeekToNegativePosition")
        ELSE CursorReturn(
                 [cs EXCEPT ![cell].offset =
                     SeekTarget(whence, delta, cs[cell].offset, r.Size)],
                 k, SeekTarget(whence, delta, cs[cell].offset, r.Size), "ok")

(************************** registration ***********************************)
\* sqlite3vfs.RegisterVFS as Init calls it: one more registration each time
RegisterVFS(reg) == [registry |-> reg + 1, err |-> "ok"]

(***************************** actions *************************************)
Init ==
    /\ files = [h \in Handles |-> NoFile]
    /\ srcs = [i \in SrcIds |-> FreeSrc]
    /\ live = [fds |-> 0, decoders |-> 0]
    /\ ops = [t \in Threads |-> Idle]
    /\ last = NoCall
    /\ cursors = [c \in CursorIds |-> NoCursor]
    /\ calls = [t \in Threads |-> NoCursorCall]
    /\ registry = 0

Access(name, flags) ==
    /\ last' = [NoCall EXCEPT !.op = "Access", !.name = name,
                              !.bool = AccessResult(name, flags).bool,
                              !.err = AccessResult(name, flags).err]
    /\ UNCHANGED <<files, srcs, live, ops>>
    /\ UNCHANGED cvars

Delete(name, dirSync) ==
    /\ last' = [NoCall EXCEPT !.op = "Delete",
                              !.err = DeleteResult(name, dirSync)]
    /\ UNCHANGED <<files, srcs, live, ops>>
    /\ UNCHANGED cvars

FullPathname(name) ==
    /\ last' = [NoCall EXCEPT !.op = "FullPathname", !.name = name,
                              !.data = FullPathnameResult(name)]
    /\ UNCHANGED <<files, srcs, live, ops>>
    /\ UNCHANGED cvars

Open(name, flags) ==
    \E decOk \in BOOLEAN :
        LET r == OpenResult(name, flags, decOk)
        IN  /\ r.fd => live.fds < MaxLive
            /\ r.dec => live.decoders < MaxLive
            /\ r.hasFile => FreeHandles # {} /\ FreeSrcIds # {}
            /\ srcs' = IF r.hasFile
                       THEN [srcs EXCEPT ![AllocSource(name)] =
                               [state |-> "open", kind |-> r.kind,
                                name |-> name, off |-> r.roff]]
                       ELSE srcs
            /\ live' = [fds |-> live.fds + (IF r.fd THEN 1 ELSE 0),
                        decoders |-> live.decoders + (IF r.dec THEN 1 ELSE 0)]
            /\ files' = IF r.hasFile
                        THEN [files EXCEPT ![Lowest(FreeHandles)] =
                                NewZstdFile(r.kind, name, AllocSource(name),
                                            r.closer, r.index)]
                        ELSE files
            /\ last' = [NoCall EXCEPT !.op = "Open", !.name = name,
                                      !.flags = flags, !.err = r.err,
                                      !.kind = OpenSource(name).branch,
                                      !.hasFile = r.hasFile,
                                      !.flagsOut = r.flagsOut]
            /\ UNCHANGED ops
            /\ UNCHANGED cvars

(***************************** ZstdFile ************************************)
\* a ReadAt call is in flight on the handle
Busy(h) == \E t \in Threads : ops[t].pc # "idle" /\ ops[t].h = h

\* what a finished ReadAt hands back to the engine
ReadReturn(f, o) ==
    [NoCall EXCEPT !.op = "ReadAt", !.name = f.name,
                   !.off = o.off, !.len = o.len, !.err = o.err,
                   !.data = o.out, !.n = Len(o.out)]

\* ZstdFile.WriteAt: the count and the error it returns
WriteAtResult(h, data, off) == [n |-> 0, err |-> "ReadOnly"]

\* ZstdFile.Truncate: the error it returns
TruncateResult(h, size) == "ReadOnly"

\* whether closing the file's closer closes the reader behind it: the
\* *os.File is its own closer, the HTTP reader sits behind io.NopCloser
CloserCloses(closer) == closer = "file"

Offs == 0..(Len(DbLogical) + 1)
Lens == 0..(Len(DbLogical) + 1)
WriteData == { <<>>, <<9>> }

\* the ranges the engine reads, within the file and past its end
ReadRanges == Offs \X Lens

\* ZstdFile.ReadAt, run from call to return
ReadAt(h, off, len) ==
    /\ files[h] # NoFile
    /\ ~Busy(h)
    /\ LET f == files[h]
           r == RunRead(f, srcs[f.src], ReadBegin(f, h, off, len))
       IN  /\ srcs' = [srcs EXCEPT ![f.src] = r[1]]
           /\ last' = ReadReturn(f, r[2])
    /\ UNCHANGED <<files, live, ops>>
    /\ UNCHANGED cvars

WriteAt(h, data, off) ==
    /\ files[h] # NoFile
    /\ last' = [NoCall EXCEPT !.op = "WriteAt",
                              !.n = WriteAtResult(h, data, off).n,
                              !.err = WriteAtResult(h, data, off).err]
    /\ UNCHANGED <<files, srcs, live, ops>>
    /\ UNCHANGED cvars

Truncate(h, size) ==
    /\ files[h] # NoFile
    /\ last' = [NoCall EXCEPT !.op = "Truncate",
                              !.err = TruncateResult(h, size)]
    /\ UNCHANGED <<files, srcs, live, ops>>
    /\ UNCHANGED cvars

FileSize(h) ==
    /\ files[h] # NoFile
    /\ last' = [NoCall EXCEPT !.op = "FileSize", !.name = files[h].name,
                              !.n = LogicalSize(files[h].index)]
    /\ UNCHANGED <<files, srcs, live, ops>>
    /\ UNCHANGED cvars

\* ZstdFile.Close: the decoder is closed and the closer is called
Close(h) ==
    /\ files[h] # NoFile
    /\ ~Busy(h)
    /\ files' = [files EXCEPT ![h] = NoFile]
    /\ live' = [fds |-> IF CloserCloses(files[h].closer)
                        THEN live.fds - 1 ELSE live.fds,
                decoders |-> live.decoders - 1]
    /\ srcs' = [srcs EXCEPT ![files[h].src] = FreeSrc]
    /\ last' = [NoCall EXCEPT !.op = "Close", !.name = files[h].name,
                              !.bool = CloserCloses(files[h].closer)]
    /\ UNCHANGED ops
    /\ UNCHANGED cvars

(******************** ReadAt, one reader step at a time ********************)
\* a thread enters ReadAt; shared says whether the engine lets a second call
\* onto a handle that already has one in flight
ReadStart(t, h, off, len, shared) ==
    /\ ops[t].pc = "idle"
    /\ files[h] # NoFile
    /\ shared \/ ~Busy(h)
    /\ LET o == ReadBegin(files[h], h, off, len)
       IN  IF o.pc = "done"
           THEN /\ last' = ReadReturn(files[h], o)
                /\ UNCHANGED ops
           ELSE /\ ops' = [ops EXCEPT ![t] = o]
                /\ UNCHANGED last
    /\ UNCHANGED <<files, srcs, live>>
    /\ UNCHANGED cvars

\* the thread's call takes its next step on the handle's reader
ReadStep(t) ==
    /\ ops[t].pc \in {"seek", "read"}
    /\ LET f == files[ops[t].h]
           r == IF ops[t].pc = "seek"
                THEN StepSeek(f, srcs[f.src], ops[t])
                ELSE StepRead(f, srcs[f.src], ops[t])
       IN  /\ srcs' = [srcs EXCEPT ![f.src] = r[1]]
           /\ IF r[2].pc = "done"
              THEN /\ last' = ReadReturn(f, r[2])
                   /\ ops' = [ops EXCEPT ![t] = Idle]
              ELSE /\ ops' = [ops EXCEPT ![t] = r[2]]
                   /\ UNCHANGED last
    /\ UNCHANGED <<files, live>>
    /\ UNCHANGED cvars

\* the variables of the VFS and its files
zvars == <<files, srcs, live, ops, last>>

\* Init of the package: it registers a ZstdVFS under the name "zstd"
InitVFS ==
    /\ registry < MaxInits
    /\ registry' = RegisterVFS(registry).registry
    /\ last' = [NoCall EXCEPT !.op = "Init",
                              !.err = RegisterVFS(registry).err]
    /\ UNCHANGED <<files, srcs, live, ops, cursors, calls>>

\* a ReadSeeker is constructed over the source with the given Size
NewReadSeeker(c, Size) ==
    /\ ~cursors[c].made
    /\ cursors' = [cursors EXCEPT
                      ![c] = [made |-> TRUE, Size |-> Size, offset |-> 0]]
    /\ UNCHANGED <<zvars, calls, registry>>

\* goroutine t has no call in flight
Quiet(t) == calls[t].pc \in { "idle", "done" }

\* a whole Read with nothing running beside it
Read(t, c, len, give) ==
    /\ cursors[c].made
    /\ Quiet(t)
    /\ LET r == CursorRun(cursors, ReadEnter(cursors, c, len, give))
       IN  /\ cursors' = r.cs
           /\ calls' = [calls EXCEPT ![t] = r.k]
    /\ UNCHANGED <<zvars, registry>>

\* a whole Seek
Seek(t, c, delta, whence) ==
    /\ cursors[c].made
    /\ Quiet(t)
    /\ LET r == SeekResult(cursors, c, delta, whence)
       IN  /\ r.cs[OffsetCell(c)].offset <= MaxOffset
           /\ cursors' = r.cs
           /\ calls' = [calls EXCEPT ![t] = r.k]
    /\ UNCHANGED <<zvars, registry>>

\* goroutine t enters Read on cursor c
ReadCall(t, c, len, give) ==
    /\ cursors[c].made
    /\ Quiet(t)
    /\ calls' = [calls EXCEPT ![t] = ReadEnter(cursors, c, len, give)]
    /\ UNCHANGED <<zvars, cursors, registry>>

\* goroutine t runs the next part of its Read
ReadNext(t) ==
    /\ ~Quiet(t)
    /\ LET r == CursorStep(cursors, calls[t])
       IN  /\ cursors' = r.cs
           /\ calls' = [calls EXCEPT ![t] = r.k]
    /\ UNCHANGED <<zvars, registry>>

(***************************** specifications ******************************)
\* the engine's calls on the VFS and on the files it returned, one at a time
Next ==
    \/ \E name \in Names, flags \in AccessFlags : Access(name, flags)
    \/ \E name \in Names, dirSync \in BOOLEAN : Delete(name, dirSync)
    \/ \E name \in Names : FullPathname(name)
    \/ \E name \in Names, flags \in OpenFlags : Open(name, flags)
    \/ \E h \in Handles, data \in WriteData, off \in {0, 1} : WriteAt(h, data, off)
    \/ \E h \in Handles, size \in {0, 1} : Truncate(h, size)
    \/ \E h \in Handles : FileSize(h)
    \/ \E h \in Handles : Close(h)

Spec == Init /\ [][Next]_vars

\* the names a connection is opened with
ReaderNames ==
    { nDb, nDbWal, nMissing, nUrl, nUrlS, nUrlUpper, nUrlMissing, nUrlBad }

\* one connection at a time: it opens a database, reads ranges of it, closes
NextRead ==
    \/ \E name \in ReaderNames :
           /\ FreeHandles = Handles
           /\ Open(name, {"ReadOnly"})
    \/ \E h \in Handles, r \in ReadRanges : ReadAt(h, r[1], r[2])
    \/ \E h \in Handles : Close(h)

SpecRead == Init /\ [][NextRead]_vars

\* the database the concurrent readers share, and the ranges they ask for
SharedNames == { nDb }
ReaderRanges == { <<0, 4>>, <<1, 2>>, <<3, 1>> }

\* several connections, each with its own handle, reading in parallel; the
\* engine serialises the calls on one handle
NextHandles ==
    \/ \E name \in SharedNames : Open(name, {"ReadOnly"})
    \/ \E t \in Threads, h \in Handles, r \in ReaderRanges :
           ReadStart(t, h, r[1], r[2], FALSE)
    \/ \E t \in Threads : ReadStep(t)

SpecHandles == Init /\ [][NextHandles]_vars

\* several threads calling ReadAt on one handle with nothing serialising them
NextShared ==
    \/ \E name \in SharedNames : Open(name, {"ReadOnly"})
    \/ \E t \in Threads, h \in Handles, r \in ReaderRanges :
           ReadStart(t, h, r[1], r[2], TRUE)
    \/ \E t \in Threads : ReadStep(t)

SpecShared == Init /\ [][NextShared]_vars

\* Init called again and again, between the engine's calls on the VFS
NextInit ==
    \/ InitVFS
    \/ \E name \in Names, flags \in AccessFlags : Access(name, flags)
    \/ \E name \in Names, dirSync \in BOOLEAN : Delete(name, dirSync)
    \/ \E name \in Names : FullPathname(name)

SpecInit == Init /\ [][NextInit]_vars

\* one goroutine using one cursor: whole Reads and Seeks, one after another
NextCursor ==
    \/ \E Size \in Sizes : NewReadSeeker(1, Size)
    \/ \E len \in BufLens, give \in BufLens :
           /\ give <= len
           /\ Read(1, 1, len, give)
    \/ \E delta \in Deltas, whence \in Whences : Seek(1, 1, delta, whence)

SpecCursor == Init /\ [][NextCursor]_vars

\* the buffer lengths of the goroutines that run in parallel
ParallelLens == 1..MaxBuf

\* every goroutine with a cursor of its own over the one source, their Reads
\* interleaved part by part
NextCursors ==
    \/ \E t \in Threads : NewReadSeeker(t, Len(SrcBytes))
    \/ \E t \in Threads, len \in ParallelLens : ReadCall(t, t, len, len)
    \/ \E t \in Threads : ReadNext(t)
    \/ \E t \in Threads : Seek(t, t, 0, "SeekStart")

SpecCursors == Init /\ [][NextCursors]_vars

\* the goroutines calling Read on one cursor with nothing serialising them,
\* one Read each
NextRace ==
    \/ NewReadSeeker(1, Len(SrcBytes))
    \/ \E t \in Threads, len \in ParallelLens :
           /\ calls[t].pc = "idle"
           /\ ReadCall(t, 1, len, len)
    \/ \E t \in Threads : ReadNext(t)

SpecRace == Init /\ [][NextRace]_vars

(***************************** properties **********************************)
\* the answer ReadAt gives on a file of its own, opened under the name and
\* read with no other call in progress
SerialRead(name, off, len) ==
    LET k == OpenSource(name).kind
        f == NewZstdFile(k, name, 1, OpenSource(name).closer,
                         Seekable[k][name].index)
        s == [state |-> "open", kind |-> k, name |-> name,
              off |-> Seekable[k][name].roff]
        r == RunRead(f, s, ReadBegin(f, 1, off, len))
    IN  [err |-> r[2].err, data |-> r[2].out]

\* C1: every read that lies within the logical size returns, without error,
\* exactly that range of the canonical decompression of the stored stream.
ReadIsByteExact ==
    (last.op = "ReadAt" /\ last.off + last.len <= Len(Logical(last.name)))
        => /\ last.err = "ok"
           /\ last.data = SubSeq(Logical(last.name), last.off + 1,
                                 last.off + last.len)

\* a read of two bytes that straddles the first frame boundary has returned
ReadStraddlesFrames ==
    /\ last.op = "ReadAt"
    /\ last.name = nDb
    /\ last.off = 1
    /\ last.len = 2
    /\ last.data = <<2, 3>>

\* C2: a step that returns from WriteAt, Truncate or Delete returns the
\* read-only error and changes no file, no reader and no resource count.
MutationsAreRefused ==
    [][last'.op \in {"WriteAt", "Truncate", "Delete"}
          => /\ last'.err = "ReadOnly"
             /\ files' = files
             /\ srcs' = srcs
             /\ live' = live]_vars

\* Delete has been refused while a file is open
DeleteRefusedWhileOpen ==
    /\ last.op = "Delete"
    /\ last.err = "ReadOnly"
    /\ \E h \in Handles : files[h] # NoFile

\* the names of the model that end in "-wal" or "-journal"
WalOrJournalNames == { nDbWal, nDbJournal, nBareWal }

\* C3: Access returns false exactly for the names ending in "-wal" or
\* "-journal", true for every other name, and never an error.
AccessRejectsExactlyWalAndJournal ==
    last.op = "Access"
        => /\ last.bool = (last.name \notin WalOrJournalNames)
           /\ last.err = "ok"

\* Access has answered false for a journal name
AccessRejectedJournal ==
    /\ last.op = "Access"
    /\ last.name = nDbJournal
    /\ last.bool = FALSE

\* C4: Access returns false for every name ending in "-wal", "-journal" or
\* "-shm".
AccessRejectsSideFiles ==
    (last.op = "Access" /\ IsSideFile(last.name)) => last.bool = FALSE

\* C5: the open-flags of every successful Open include read-only.
OpenReturnsReadOnly ==
    (last.op = "Open" /\ last.err = "ok") => "ReadOnly" \in last.flagsOut

\* an Open asked for read-write and create has succeeded
OpenedReadWriteRequest ==
    /\ last.op = "Open"
    /\ last.err = "ok"
    /\ last.flags = {"ReadWrite", "Create"}
    /\ last.flagsOut = {"ReadWrite", "Create", "ReadOnly"}

\* C6: an Open either succeeds with a file, or fails with CantOpen, no file
\* and zero flags.
OpenFailsWithCantOpen ==
    last.op = "Open"
        => \/ last.err = "ok" /\ last.hasFile
           \/ last.err = "CantOpen" /\ ~last.hasFile /\ last.flagsOut = {}

\* an Open of an existing file that is no seekable-zstd stream has failed
OpenFailedOnParse ==
    /\ last.op = "Open"
    /\ last.name = nDbJournal
    /\ last.err = "CantOpen"
    /\ ~last.hasFile

\* C7: Open of a side-file name returns CantOpen.
OpenRejectsSideFiles ==
    (last.op = "Open" /\ IsSideFile(last.name)) => last.err = "CantOpen"

\* the names a connection is opened with that begin with a URL scheme
UrlNames == { nUrl, nUrlS, nUrlMissing, nUrlBad }

\* C8: Open goes to the HTTP reader exactly for the names beginning with
\* "http://" or "https://", and a read of a file opened by URL returns what
\* the same read returns on the same artifact opened by path.
HttpExactlyForUrlNames ==
    /\ last.op = "Open" => ((last.kind = "http") = (last.name \in UrlNames))
    /\ (last.op = "ReadAt" /\ last.name \in UrlNames)
          => /\ last.err = SerialRead(nDb, last.off, last.len).err
             /\ last.data = SerialRead(nDb, last.off, last.len).data

\* the whole database has been read through an https URL
ReadWholeFileOverHttps ==
    /\ last.op = "ReadAt"
    /\ last.name = nUrlS
    /\ last.off = 0
    /\ last.data = DbLogical

\* C9: two open handles never have the same reader, and every read that
\* returns while other handles read returns, without error, the answer of a
\* serial execution.
HandlesAreIndependent ==
    /\ \A h1, h2 \in Handles :
          (h1 # h2 /\ files[h1] # NoFile /\ files[h2] # NoFile)
              => files[h1].src # files[h2].src
    /\ last.op = "ReadAt"
          => /\ last.err = "ok"
             /\ last.data = SerialRead(last.name, last.off, last.len).data

\* two threads are between seek and read on two handles over one file,
\* after a read has returned
TwoHandlesMidRead ==
    /\ last.op = "ReadAt"
    /\ ops[1].pc = "read"
    /\ ops[2].pc = "read"
    /\ ops[1].h # ops[2].h
    /\ files[ops[1].h].name = files[ops[2].h].name

CloseClosesTheSource ==
    last.op = "Close" => last.bool

\* the handles that hold a local file, and the handles that are open
FileHandles == { h \in Handles : files[h] # NoFile /\ files[h].closer = "file" }
OpenHandles == { h \in Handles : files[h] # NoFile }

\* C18: when Open returns CantOpen, the only descriptors and decoders still
\* open are those of the files that are open.
FailedOpenHoldsNothing ==
    (last.op = "Open" /\ last.err = "CantOpen")
        => /\ live.fds = Cardinality(FileHandles)
           /\ live.decoders = Cardinality(OpenHandles)

\* the Reads and the Seeks that have returned
ReadsDone == { t \in Threads : calls[t].pc = "done" /\ calls[t].op = "Read" }
SeeksDone == { t \in Threads : calls[t].pc = "done" /\ calls[t].op = "Seek" }

\* C12: a Read that has returned n bytes has left the cursor's offset at
\* the offset it began at plus n, whatever error came with the count, and
\* so where it was when n = 0.
ReadAdvancesByCount ==
    \A t \in ReadsDone :
        cursors[calls[t].c].offset = calls[t].before + calls[t].n

\* the source has returned fewer bytes than asked for together with an
\* error, and the Read has returned them
ShortReadWithError ==
    /\ 1 \in ReadsDone
    /\ calls[1].err = "ErrUnexpected"
    /\ calls[1].n > 0
    /\ calls[1].n < calls[1].plen

\* the base a Seek counts from
SeekBase(k) ==
    CASE k.whence = "SeekStart" -> 0
      [] k.whence = "SeekCurrent" -> k.before
      [] k.whence = "SeekEnd" -> cursors[k.c].Size
      [] OTHER -> 0 - 1

\* C13: a Seek on a cursor with Size >= 0 sets the offset to base + delta
\* and returns it; with a negative base + delta or a whence that is no base
\* it returns an error and leaves the offset where it was.
SeekSetsOffset ==
    \A t \in SeeksDone :
        LET k == calls[t]
            valid == k.whence \in { "SeekStart", "SeekCurrent", "SeekEnd" }
        IN  cursors[k.c].Size >= 0
                => IF valid /\ SeekBase(k) + k.delta >= 0
                   THEN /\ k.err = "ok"
                        /\ k.n = SeekBase(k) + k.delta
                        /\ cursors[k.c].offset = SeekBase(k) + k.delta
                   ELSE /\ k.err # "ok"
                        /\ cursors[k.c].offset = k.before

\* a Seek backwards from the end has returned Size - 1
SeekBackFromEnd ==
    /\ 1 \in SeeksDone
    /\ calls[1].whence = "SeekEnd"
    /\ calls[1].delta = 0 - 1
    /\ calls[1].before = 1
    /\ calls[1].err = "ok"
    /\ calls[1].n = Len(SrcBytes) - 1

\* C14: a Seek to a position past Size succeeds, and a Read that begins
\* with the offset at or beyond Size returns zero bytes and EOF without
\* calling the source and without moving the offset.
ReadsAtEndReturnEOF ==
    /\ \A t \in SeeksDone :
          LET k == calls[t]
          IN  (/\ cursors[k.c].Size >= 0
               /\ k.whence \in { "SeekStart", "SeekCurrent", "SeekEnd" }
               /\ SeekBase(k) + k.delta > cursors[k.c].Size)
                  => k.err = "ok" /\ cursors[k.c].offset > cursors[k.c].Size
    /\ \A t \in ReadsDone :
          LET k == calls[t]
          IN  (cursors[k.c].Size >= 0 /\ k.before >= cursors[k.c].Size)
                  => /\ k.n = 0
                     /\ k.err = "EOF"
                     /\ ~k.asked
                     /\ cursors[k.c].offset = k.before

\* a Read with a buffer has returned on a cursor that a Seek had put past
\* the end of a source of several bytes
ReadPastEnd ==
    /\ 1 \in ReadsDone
    /\ cursors[1].Size = Len(SrcBytes)
    /\ calls[1].before > cursors[1].Size
    /\ calls[1].len > 0

\* what goroutine t's last call returns, and where it leaves the cursor,
\* when it runs from the offset it began at with nothing beside it
Alone(t) ==
    LET k == calls[t]
        cs == [cursors EXCEPT ![k.c].offset = k.before]
    IN  IF k.op = "Read"
        THEN CursorRun(cs, ReadEnter(cs, k.c, k.len, k.give))
        ELSE SeekResult(cs, k.c, k.delta, k.whence)

\* C15: with every goroutine on a cursor of its own, a cursor's offset is
\* moved by its own goroutine's calls only, and every call that returns has
\* returned the bytes, count, error and offset it returns when run alone.
CursorsAreIndependent ==
    \A t \in Threads :
        LET k == calls[t]
        IN  /\ k.pc = "idle" => cursors[t].offset = 0
            /\ k.pc \notin { "idle", "done" }
                  => cursors[k.c].offset = k.before
            /\ k.pc = "done"
                  => /\ k.n = Alone(t).k.n
                     /\ k.err = Alone(t).k.err
                     /\ k.data = Alone(t).k.data
                     /\ cursors[k.c].offset = Alone(t).cs[k.c].offset

\* two goroutines are in the middle of Reads on two cursors standing at
\* different offsets of the one source
TwoCursorsMidRead ==
    /\ calls[1].pc = "load"
    /\ calls[2].pc = "store"
    /\ calls[1].c # calls[2].c
    /\ calls[1].before = 2
    /\ calls[2].before = 1

\* C16: when two Reads on one cursor have both loaded the same offset for
\* their addition, the offset ends at that offset plus the count of one of
\* them only, and if both handed the same offset to ReadAt they return
\* bytes from the same place.
RacingReadsLoseAnUpdate ==
    \A t1, t2 \in ReadsDone :
        (/\ t1 # t2
         /\ \A t3 \in Threads \ { t1, t2 } : calls[t3].pc = "idle"
         /\ calls[t1].c = calls[t2].c
         /\ calls[t1].asked /\ calls[t2].asked
         /\ calls[t1].n > 0 /\ calls[t2].n > 0
         /\ calls[t1].tmp = calls[t2].tmp)
            => /\ cursors[calls[t1].c].offset \in
                      { calls[t1].tmp + calls[t1].n,
                        calls[t2].tmp + calls[t2].n }
               /\ cursors[calls[t1].c].offset <
                      calls[t1].tmp + calls[t1].n + calls[t2].n
               /\ calls[t1].at = calls[t2].at
                      => calls[t1].data[1] = calls[t2].data[1]

\* two Reads on one cursor have both returned the range starting at 0, and
\* the offset has moved by less than the bytes they returned together
LostUpdate ==
    /\ { 1, 2 } \subseteq ReadsDone
    /\ calls[1].c = calls[2].c
    /\ calls[1].at = 0 /\ calls[2].at = 0
    /\ calls[1].data = calls[2].data
    /\ calls[1].n > 0
    /\ cursors[calls[1].c].offset < calls[1].n + calls[2].n

\* C17: however often Init is called, it returns no error and at most one
\* registration under the name "zstd" has been made.
InitRegistersOnce ==
    /\ last.op = "Init" => last.err = "ok"
    /\ registry <= 1

\* C19: every ReadAt a Read issues on a cursor with Size >= 0 has a
\* non-empty buffer that lies within [0, Size); a Read that begins within
\* [0, Size] returns at most min(len(p), Size - offset) bytes and leaves the
\* offset within [0, Size].
ReadStaysWithinSize ==
    \A t \in ReadsDone :
        LET k == calls[t]
            Size == cursors[k.c].Size
        IN  Size >= 0
                => /\ k.asked => /\ k.plen > 0
                                 /\ 0 <= k.at /\ k.at < Size
                                 /\ k.at + k.plen <= Size
                   /\ (0 <= k.before /\ k.before <= Size)
                         => /\ k.n <= Min(k.len, Size - k.before)
                            /\ 0 <= cursors[k.c].offset
                            /\ cursors[k.c].offset <= Size

\* a Read with a buffer longer than what is left before Size has returned
\* on a cursor whose Size is smaller than the source
ReadClippedAtSize ==
    /\ 1 \in ReadsDone
    /\ cursors[1].Size < Len(SrcBytes)
    /\ calls[1].asked
    /\ calls[1].len > cursors[1].Size - calls[1].before
    /\ calls[1].n = cursors[1].Size - calls[1].before

====
